---- MODULE Spec2Model ----
(***************************************************************************)
(* Model of the deterministic single-tape Turing machine engine of         *)
(* src/src/turing_machine.py together with the five sample definitions of  *)
(* src/src/transitions.py, the test harness and the examples of            *)
(* src/src/utils.py, and the window of src/src/gui.py.                     *)
(*                                                                         *)
(* Python lists are sequences: the Python index i is the TLA+ index i+1.   *)
(* Python strings are sequences of one-character strings.  A message is a  *)
(* sequence of its pieces, so that two messages are equal exactly when the *)
(* Python strings are.                                                     *)
(***************************************************************************)
EXTENDS Integers, Sequences, FiniteSets, TLC

(***************************************************************************)
(* Bounds of the exploration.                                              *)
(***************************************************************************)
MaxLen == 2            \* longest input string handed to reset/run in Spec
MaxRunSteps == 3       \* largest small max_steps handed to run
MaxStepCalls == 6      \* step() is no longer called once step_count reaches it
ScenarioMaxSteps == 50 \* the max_steps of the step-limit scenario
LangLen == 4           \* longest input string of the language checks
GuiLen == 1            \* longest input string typed into the window
MaxThreads == 2        \* worker threads of the window alive at a time
MaxAfter == 2          \* callbacks waiting in the window's event queue

(***************************************************************************)
(* The five sample definitions (transitions.py).                           *)
(***************************************************************************)
\* The first table with ('q3', 'b') staying in q3 instead of returning to q0.
REGEX_1_TRANSITIONS_q3_loop ==
    (<<"q0", "a">> :> <<"q1", "a", "R">>) @@
    (<<"q0", "b">> :> <<"q0", "b", "R">>) @@
    (<<"q0", "_">> :> <<"qr", "_", "S">>) @@
    (<<"q1", "a">> :> <<"q1", "a", "R">>) @@
    (<<"q1", "b">> :> <<"q2", "b", "R">>) @@
    (<<"q1", "_">> :> <<"qr", "_", "S">>) @@
    (<<"q2", "a">> :> <<"q1", "a", "R">>) @@
    (<<"q2", "b">> :> <<"q3", "b", "R">>) @@
    (<<"q2", "_">> :> <<"qr", "_", "S">>) @@
    (<<"q3", "a">> :> <<"q1", "a", "R">>) @@
    (<<"q3", "b">> :> <<"q3", "b", "R">>) @@
    (<<"q3", "_">> :> <<"qa", "_", "S">>)

REGEX_1_TRANSITIONS ==
    (<<"q0", "a">> :> <<"q1", "a", "R">>) @@
    (<<"q0", "b">> :> <<"q0", "b", "R">>) @@
    (<<"q0", "_">> :> <<"qr", "_", "S">>) @@
    (<<"q1", "a">> :> <<"q1", "a", "R">>) @@
    (<<"q1", "b">> :> <<"q2", "b", "R">>) @@
    (<<"q1", "_">> :> <<"qr", "_", "S">>) @@
    (<<"q2", "a">> :> <<"q1", "a", "R">>) @@
    (<<"q2", "b">> :> <<"q3", "b", "R">>) @@
    (<<"q2", "_">> :> <<"qr", "_", "S">>) @@
    (<<"q3", "a">> :> <<"q1", "a", "R">>) @@
    (<<"q3", "b">> :> <<"q0", "b", "R">>) @@
    (<<"q3", "_">> :> <<"qa", "_", "S">>)

REGEX_1_CONFIG ==
    [name |-> "(a|b)*abb",
     states |-> <<"q0", "q1", "q2", "q3", "qa", "qr">>,
     alphabet |-> <<"a", "b">>,
     tape_alphabet |-> <<"a", "b", "_">>,
     transitions |-> REGEX_1_TRANSITIONS,
     initial_state |-> "q0",
     accept_states |-> <<"qa">>,
     reject_states |-> <<"qr">>,
     blank_symbol |-> "_"]

\* The table of 0*1* taking one more step on the blank in q0.
REGEX_2_TRANSITIONS_extra_step ==
    (<<"q0", "0">> :> <<"q0", "0", "R">>) @@
    (<<"q0", "1">> :> <<"q1", "1", "R">>) @@
    (<<"q0", "_">> :> <<"q1", "_", "S">>) @@
    (<<"q1", "0">> :> <<"qr", "0", "S">>) @@
    (<<"q1", "1">> :> <<"q1", "1", "R">>) @@
    (<<"q1", "_">> :> <<"qa", "_", "S">>)

REGEX_2_TRANSITIONS ==
    (<<"q0", "0">> :> <<"q0", "0", "R">>) @@
    (<<"q0", "1">> :> <<"q1", "1", "R">>) @@
    (<<"q0", "_">> :> <<"qa", "_", "S">>) @@
    (<<"q1", "0">> :> <<"qr", "0", "S">>) @@
    (<<"q1", "1">> :> <<"q1", "1", "R">>) @@
    (<<"q1", "_">> :> <<"qa", "_", "S">>)

REGEX_2_CONFIG ==
    [name |-> "0*1*",
     states |-> <<"q0", "q1", "qa", "qr">>,
     alphabet |-> <<"0", "1">>,
     tape_alphabet |-> <<"0", "1", "_">>,
     transitions |-> REGEX_2_TRANSITIONS,
     initial_state |-> "q0",
     accept_states |-> <<"qa">>,
     reject_states |-> <<"qr">>,
     blank_symbol |-> "_"]

\* The third table without its entry for ('q1', '_').
REGEX_3_TRANSITIONS_no_q1_blank ==
    (<<"q0", "a">> :> <<"q1", "a", "R">>) @@
    (<<"q0", "_">> :> <<"qa", "_", "S">>) @@
    (<<"q0", "b">> :> <<"qr", "b", "S">>) @@
    (<<"q1", "a">> :> <<"qr", "a", "S">>) @@
    (<<"q1", "b">> :> <<"q0", "b", "R">>)

REGEX_3_TRANSITIONS ==
    (<<"q0", "a">> :> <<"q1", "a", "R">>) @@
    (<<"q0", "_">> :> <<"qa", "_", "S">>) @@
    (<<"q0", "b">> :> <<"qr", "b", "S">>) @@
    (<<"q1", "a">> :> <<"qr", "a", "S">>) @@
    (<<"q1", "b">> :> <<"q0", "b", "R">>) @@
    (<<"q1", "_">> :> <<"qr", "_", "S">>)

REGEX_3_CONFIG ==
    [name |-> "(ab)*",
     states |-> <<"q0", "q1", "qa", "qr">>,
     alphabet |-> <<"a", "b">>,
     tape_alphabet |-> <<"a", "b", "_">>,
     transitions |-> REGEX_3_TRANSITIONS,
     initial_state |-> "q0",
     accept_states |-> <<"qa">>,
     reject_states |-> <<"qr">>,
     blank_symbol |-> "_"]

REGEX_4_TRANSITIONS ==
    (<<"q0", "0">> :> <<"qr", "0", "S">>) @@
    (<<"q0", "1">> :> <<"q1", "1", "R">>) @@
    (<<"q0", "_">> :> <<"qr", "_", "S">>) @@
    (<<"q1", "0">> :> <<"q2", "0", "R">>) @@
    (<<"q1", "1">> :> <<"qr", "1", "S">>) @@
    (<<"q1", "_">> :> <<"qr", "_", "S">>) @@
    (<<"q2", "0">> :> <<"qr", "0", "S">>) @@
    (<<"q2", "1">> :> <<"q1", "1", "R">>) @@
    (<<"q2", "_">> :> <<"qa", "_", "S">>)

REGEX_4_CONFIG ==
    [name |-> "1(01)*0",
     states |-> <<"q0", "q1", "q2", "qa", "qr">>,
     alphabet |-> <<"0", "1">>,
     tape_alphabet |-> <<"0", "1", "_">>,
     transitions |-> REGEX_4_TRANSITIONS,
     initial_state |-> "q0",
     accept_states |-> <<"qa">>,
     reject_states |-> <<"qr">>,
     blank_symbol |-> "_"]

REGEX_5_TRANSITIONS ==
    (<<"q0", "a">> :> <<"q1", "a", "R">>) @@
    (<<"q0", "b">> :> <<"q0", "b", "R">>) @@
    (<<"q0", "_">> :> <<"qr", "_", "S">>) @@
    (<<"q1", "a">> :> <<"q1", "a", "R">>) @@
    (<<"q1", "b">> :> <<"q1", "b", "R">>) @@
    (<<"q1", "_">> :> <<"qa", "_", "S">>)

REGEX_5_CONFIG ==
    [name |-> "(a+b)*a(a+b)*",
     states |-> <<"q0", "q1", "qa", "qr">>,
     alphabet |-> <<"a", "b">>,
     tape_alphabet |-> <<"a", "b", "_">>,
     transitions |-> REGEX_5_TRANSITIONS,
     initial_state |-> "q0",
     accept_states |-> <<"qa">>,
     reject_states |-> <<"qr">>,
     blank_symbol |-> "_"]

TURING_MACHINES ==
    ("(a|b)*abb" :> REGEX_1_CONFIG) @@
    ("0*1*" :> REGEX_2_CONFIG) @@
    ("(ab)*" :> REGEX_3_CONFIG) @@
    ("1(01)*0" :> REGEX_4_CONFIG) @@
    ("(a+b)*a(a+b)*" :> REGEX_5_CONFIG)

\* get_all_machine_names(): the keys of TURING_MACHINES.
SampleNames == DOMAIN TURING_MACHINES

(***************************************************************************)
(* Further definitions handed to the constructor.  The engine is generic   *)
(* in its definition (TuringMachine.__init__ takes any transition table),  *)
(* so the exploration also constructs it with tables that loop, that walk  *)
(* off either end of the buffer, that declare two or no reject states and  *)
(* that carry a malformed direction.                                       *)
(***************************************************************************)
LOOP_STAY_CONFIG ==
    [name |-> "loop-stay",
     states |-> <<"q0", "qa", "qr">>,
     alphabet |-> <<"a", "b">>,
     tape_alphabet |-> <<"a", "b", "_">>,
     transitions |-> (<<"q0", "a">> :> <<"q0", "a", "S">>) @@
                     (<<"q0", "b">> :> <<"q0", "a", "S">>) @@
                     (<<"q0", "_">> :> <<"q0", "_", "S">>),
     initial_state |-> "q0",
     accept_states |-> <<"qa">>,
     reject_states |-> <<"qr">>,
     blank_symbol |-> "_"]

LOOP_LEFT_CONFIG ==
    [name |-> "loop-left",
     states |-> <<"q0", "qa", "qr">>,
     alphabet |-> <<"a", "b">>,
     tape_alphabet |-> <<"a", "b", "_">>,
     transitions |-> (<<"q0", "a">> :> <<"q0", "b", "L">>) @@
                     (<<"q0", "b">> :> <<"q0", "b", "L">>) @@
                     (<<"q0", "_">> :> <<"q0", "a", "L">>),
     initial_state |-> "q0",
     accept_states |-> <<"qa">>,
     reject_states |-> <<"qr">>,
     blank_symbol |-> "_"]

LOOP_RIGHT_CONFIG ==
    [name |-> "loop-right",
     states |-> <<"q0", "q1", "qa", "qr">>,
     alphabet |-> <<"a", "b">>,
     tape_alphabet |-> <<"a", "b", "_">>,
     transitions |-> (<<"q0", "a">> :> <<"q1", "a", "R">>) @@
                     (<<"q0", "b">> :> <<"q1", "b", "R">>) @@
                     (<<"q0", "_">> :> <<"q1", "b", "R">>) @@
                     (<<"q1", "a">> :> <<"q0", "a", "R">>) @@
                     (<<"q1", "b">> :> <<"q0", "b", "R">>) @@
                     (<<"q1", "_">> :> <<"q0", "_", "R">>),
     initial_state |-> "q0",
     accept_states |-> <<"qa">>,
     reject_states |-> <<"qr", "qx">>,
     blank_symbol |-> "_"]

TWO_REJECT_CONFIG ==
    [name |-> "two-reject",
     states |-> <<"q0", "qa", "qr", "qx">>,
     alphabet |-> <<"a", "b">>,
     tape_alphabet |-> <<"a", "b", "_">>,
     transitions |-> (<<"q0", "a">> :> <<"q0", "a", "R">>) @@
                     (<<"q0", "b">> :> <<"qa", "b", "S">>),
     initial_state |-> "q0",
     accept_states |-> <<"qa">>,
     reject_states |-> <<"qr", "qx">>,
     blank_symbol |-> "_"]

NO_REJECT_CONFIG ==
    [name |-> "no-reject",
     states |-> <<"q0", "qa">>,
     alphabet |-> <<"a", "b">>,
     tape_alphabet |-> <<"a", "b", "_">>,
     transitions |-> (<<"q0", "a">> :> <<"q0", "a", "R">>) @@
                     (<<"q0", "b">> :> <<"qa", "b", "S">>),
     initial_state |-> "q0",
     accept_states |-> <<"qa">>,
     reject_states |-> <<>>,
     blank_symbol |-> "_"]

BAD_DIRECTION_CONFIG ==
    [name |-> "bad-direction",
     states |-> <<"q0", "qa", "qr">>,
     alphabet |-> <<"a", "b">>,
     tape_alphabet |-> <<"a", "b", "_">>,
     transitions |-> (<<"q0", "a">> :> <<"q0", "b", "X">>) @@
                     (<<"q0", "b">> :> <<"q0", "b", "R">>) @@
                     (<<"q0", "_">> :> <<"qa", "_", "S">>),
     initial_state |-> "q0",
     accept_states |-> <<"qa">>,
     reject_states |-> <<"qr">>,
     blank_symbol |-> "_"]

BAD_BLANK_CONFIG ==
    [name |-> "bad-blank",
     states |-> <<"q0", "qa", "qr">>,
     alphabet |-> <<"a", "b">>,
     tape_alphabet |-> <<"a", "b">>,
     transitions |-> (<<"q0", "a">> :> <<"q0", "a", "R">>) @@
                     (<<"q0", "_">> :> <<"qa", "_", "S">>),
     initial_state |-> "q0",
     accept_states |-> <<"qa">>,
     reject_states |-> <<"qr">>,
     blank_symbol |-> "_"]

OVERLAP_CONFIG ==
    [name |-> "overlap",
     states |-> <<"q0", "qa", "qb">>,
     alphabet |-> <<"a", "b">>,
     tape_alphabet |-> <<"a", "b", "_">>,
     transitions |-> (<<"q0", "a">> :> <<"qb", "a", "S">>) @@
                     (<<"q0", "b">> :> <<"q0", "b", "R">>) @@
                     (<<"q0", "_">> :> <<"qa", "_", "S">>),
     initial_state |-> "q0",
     accept_states |-> <<"qa", "qb">>,
     reject_states |-> <<"qb">>,
     blank_symbol |-> "_"]

BAD_INITIAL_CONFIG ==
    [name |-> "bad-initial",
     states |-> <<"q0", "qa", "qr">>,
     alphabet |-> <<"a", "b">>,
     tape_alphabet |-> <<"a", "b", "_">>,
     transitions |-> (<<"q0", "a">> :> <<"q0", "a", "R">>) @@
                     (<<"q0", "_">> :> <<"qa", "_", "S">>),
     initial_state |-> "qs",
     accept_states |-> <<"qa">>,
     reject_states |-> <<"qr">>,
     blank_symbol |-> "_"]

ACCEPT_INITIAL_CONFIG ==
    [name |-> "accept-initial",
     states |-> <<"q0", "q1", "qr">>,
     alphabet |-> <<"a", "b">>,
     tape_alphabet |-> <<"a", "b", "_">>,
     transitions |-> (<<"q0", "a">> :> <<"q1", "b", "R">>) @@
                     (<<"q1", "a">> :> <<"qr", "a", "S">>),
     initial_state |-> "q0",
     accept_states |-> <<"q0">>,
     reject_states |-> <<"qr">>,
     blank_symbol |-> "_"]

REJECT_INITIAL_CONFIG ==
    [name |-> "reject-initial",
     states |-> <<"q0", "qa", "qr">>,
     alphabet |-> <<"a", "b">>,
     tape_alphabet |-> <<"a", "b", "_">>,
     transitions |-> (<<"qr", "a">> :> <<"qa", "b", "R">>) @@
                     (<<"qr", "_">> :> <<"qa", "_", "S">>),
     initial_state |-> "qr",
     accept_states |-> <<"qa">>,
     reject_states |-> <<"qr">>,
     blank_symbol |-> "_"]

OTHER_MACHINES ==
    ("loop-stay" :> LOOP_STAY_CONFIG) @@
    ("loop-left" :> LOOP_LEFT_CONFIG) @@
    ("loop-right" :> LOOP_RIGHT_CONFIG) @@
    ("two-reject" :> TWO_REJECT_CONFIG) @@
    ("no-reject" :> NO_REJECT_CONFIG) @@
    ("bad-direction" :> BAD_DIRECTION_CONFIG) @@
    ("bad-blank" :> BAD_BLANK_CONFIG) @@
    ("overlap" :> OVERLAP_CONFIG) @@
    ("bad-initial" :> BAD_INITIAL_CONFIG) @@
    ("accept-initial" :> ACCEPT_INITIAL_CONFIG) @@
    ("reject-initial" :> REJECT_INITIAL_CONFIG)

ALL_MACHINES == TURING_MACHINES @@ OTHER_MACHINES

\* get_machine_config(regex_name)
get_machine_config(regex_name) == ALL_MACHINES[regex_name]

(***************************************************************************)
(* Python helpers.                                                         *)
(***************************************************************************)
\* set(list)
SetOf(list) == {list[i] : i \in DOMAIN list}

\* list[i] for a Python index i, negative indices counting from the end.
PyIndex(list, i) == IF i >= 0 THEN list[i + 1] ELSE list[Len(list) + i + 1]

\* [symbol] * n
Repeat(symbol, n) == [i \in 1..n |-> symbol]

\* All strings over the symbol set S of length at most n.
Strs(S, n) == UNION {[1..k -> S] : k \in 0..n}

\* The orders in which iterating a set may yield its members.
Orders(S) == {o \in [1..Cardinality(S) -> S] : SetOf(o) = S}

None == "None"
NoError == "none"

MARGIN == 5
LEFT_EXTENSION == 5

MSG_ACCEPT == <<"CADENA ACEPTADA">>
MSG_REJECT == <<"CADENA RECHAZADA">>
MSG_NO_TRANSITION == <<"RECHAZADA: No hay transición definida">>
MSG_MAX_STEPS == <<"RECHAZADA: Máximo de pasos alcanzado">>
FALLBACK_REJECT == "qr"

\* The f-string of step(): its pieces in order.
StepMessage(old, new, read, write, direction) ==
    <<"Estado: ", old, " → ", new, ", Leyó: '", read, "', Escribió: '", write,
      "', Movimiento: ", direction>>

(***************************************************************************)
(* State.  The definition the engine was constructed with is named by      *)
(* defn; self.transitions, self.initial_state, self.accept_states,         *)
(* self.reject_states and self.blank_symbol are read from it and never     *)
(* assigned after __init__.  reject_list is list(self.reject_states): the  *)
(* order in which the reject set of this engine iterates.                  *)
(***************************************************************************)
VARIABLES
    defn,           \* name of the definition handed to __init__
    reject_list,    \* list(self.reject_states) of this engine
    tape,           \* self.tape
    head_position,  \* self.head_position
    current_state,  \* self.current_state
    history,        \* self.history
    step_count,     \* self.step_count
    call,           \* the last call made on the engine and its arguments
    ret,            \* the value that call returned (None if it raised)
    raised,         \* the exception that call raised, or NoError
    loaded,         \* <<s>> for the string s of the last reset, <<>> before it
    tape_refs,      \* who else holds the list object self.tape: i for the
                    \* 'tape' of history[i - 1], 0 for the returned value
    gui             \* the window of gui.py: self.tm, self.is_running,
                    \* self.is_paused, the button states, the callbacks
                    \* handed to root.after, and its worker threads

vars == <<defn, reject_list, tape, head_position, current_state, history,
          step_count, call, ret, raised, loaded, tape_refs, gui>>

\* The mutable run state as one value, as the methods see it through self.
Self == [tape |-> tape, head_position |-> head_position,
         current_state |-> current_state, history |-> history,
         step_count |-> step_count, tape_refs |-> tape_refs]

Config == get_machine_config(defn)
accept_states == SetOf(Config.accept_states)
reject_states == SetOf(Config.reject_states)

(***************************************************************************)
(* The methods of TuringMachine as functions of the run state.             *)
(***************************************************************************)
\* _save_configuration that stores self.tape itself, not a copy of it.
save_configuration_sharing(cfg, tm) ==
    [tm EXCEPT !.history = Append(@,
        [step |-> tm.step_count,
         state |-> tm.current_state,
         tape |-> tm.tape,
         head |-> tm.head_position,
         symbol |-> IF tm.head_position < Len(tm.tape)
                    THEN PyIndex(tm.tape, tm.head_position)
                    ELSE cfg.blank_symbol]),
               !.tape_refs = @ \cup {Len(tm.history) + 1}]

\* _save_configuration
save_configuration(cfg, tm) ==
    [tm EXCEPT !.history = Append(@,
        [step |-> tm.step_count,
         state |-> tm.current_state,
         tape |-> tm.tape,
         head |-> tm.head_position,
         symbol |-> IF tm.head_position < Len(tm.tape)
                    THEN PyIndex(tm.tape, tm.head_position)
                    ELSE cfg.blank_symbol])]

\* reset that forgets "self.history = []".
reset_keeping_history(cfg, tm, input_string) ==
    save_configuration(cfg,
        [tape |-> Repeat(cfg.blank_symbol, MARGIN) \o input_string
                    \o Repeat(cfg.blank_symbol, MARGIN),
         head_position |-> MARGIN,
         current_state |-> cfg.initial_state,
         history |-> tm.history,
         step_count |-> 0,
         tape_refs |-> {}])

\* reset that keeps only the symbols of the tape alphabet.
reset_dropping_unknown(cfg, tm, input_string) ==
    save_configuration(cfg,
        [tape |-> Repeat(cfg.blank_symbol, MARGIN)
                    \o SelectSeq(input_string,
                                 LAMBDA x : x \in SetOf(cfg.tape_alphabet))
                    \o Repeat(cfg.blank_symbol, MARGIN),
         head_position |-> MARGIN,
         current_state |-> cfg.initial_state,
         history |-> <<>>,
         step_count |-> 0,
         tape_refs |-> {}])

\* reset that forgets "self.current_state = self.initial_state".
reset_keeping_state(cfg, tm, input_string) ==
    save_configuration(cfg,
        [tape |-> Repeat(cfg.blank_symbol, MARGIN) \o input_string
                    \o Repeat(cfg.blank_symbol, MARGIN),
         head_position |-> MARGIN,
         current_state |-> tm.current_state,
         history |-> <<>>,
         step_count |-> 0,
         tape_refs |-> {}])

\* reset(input_string)
reset(cfg, tm, input_string) ==
    save_configuration(cfg,
        [tape |-> Repeat(cfg.blank_symbol, MARGIN) \o input_string
                    \o Repeat(cfg.blank_symbol, MARGIN),
         head_position |-> MARGIN,
         current_state |-> cfg.initial_state,
         history |-> <<>>,
         step_count |-> 0,
         tape_refs |-> {}])

\* self.tape[i] = x and self.tape.append(x): the list object self.tape
\* changes in place, and with it the 'tape' of every history entry that is
\* the same object.
in_place(tm, cells) ==
    [tm EXCEPT !.tape = cells,
               !.history = [i \in DOMAIN @ |->
                               IF i \in tm.tape_refs
                               THEN [@[i] EXCEPT !.tape = cells]
                               ELSE @[i]]]

\* The while loop of _ensure_tape_bounds: append one blank per iteration.
RECURSIVE ExtendRight(_, _, _)
ExtendRight(blank, cells, head) ==
    IF head >= Len(cells) THEN ExtendRight(blank, Append(cells, blank), head)
    ELSE cells

\* _ensure_tape_bounds without the while loop that extends the tape to the
\* right.
ensure_tape_bounds_left_only(cfg, tm) ==
    IF tm.head_position < 0
    THEN [tm EXCEPT !.tape = Repeat(cfg.blank_symbol, LEFT_EXTENSION) \o @,
                    !.head_position = @ + LEFT_EXTENSION,
                    !.tape_refs = {}]
    ELSE tm

\* _ensure_tape_bounds whose left extension replaces the tape.
ensure_tape_bounds_dropping(cfg, tm) ==
    LET left == IF tm.head_position < 0
                THEN [tm EXCEPT !.tape = Repeat(cfg.blank_symbol, LEFT_EXTENSION),
                                !.head_position = @ + LEFT_EXTENSION,
                                !.tape_refs = {}]
                ELSE tm
    IN in_place(left, ExtendRight(cfg.blank_symbol, left.tape, left.head_position))

\* _ensure_tape_bounds
ensure_tape_bounds(cfg, tm) ==
    LET left == IF tm.head_position < 0
                THEN [tm EXCEPT !.tape = Repeat(cfg.blank_symbol, LEFT_EXTENSION) \o @,
                                !.head_position = @ + LEFT_EXTENSION,
                                !.tape_refs = {}]
                ELSE tm
    IN in_place(left, ExtendRight(cfg.blank_symbol, left.tape, left.head_position))

\* list(self.reject_states)[0] if self.reject_states else 'qr'
first_reject(rlist) == IF rlist # <<>> THEN rlist[1] ELSE FALLBACK_REJECT

\* The head movement with the two directions exchanged.
move_head_reversed(head, direction) ==
    CASE direction = "R" -> head - 1
      [] direction = "L" -> head + 1
      [] OTHER -> head

\* The head index after moving in the given direction.
move_head(head, direction) ==
    CASE direction = "R" -> head + 1
      [] direction = "L" -> head - 1
      [] OTHER -> head

\* The 5-tuple step() returns.
StepResult(continuar, tm, mensaje) ==
    <<continuar, tm.current_state, tm.tape, tm.head_position, mensaje>>

\* The undefined-transition branch moving the head one cell to the right.
no_transition_moving_head(cfg, rlist, tm) ==
    LET rejected == save_configuration(cfg,
            [tm EXCEPT !.current_state = first_reject(rlist),
                       !.head_position = @ + 1])
    IN [tm |-> rejected,
        ret |-> StepResult(FALSE, rejected, MSG_NO_TRANSITION),
        raised |-> NoError]

\* The undefined-transition branch without the assignment to current_state.
no_transition_keeping_state(cfg, rlist, tm) ==
    LET rejected == save_configuration(cfg, tm)
    IN [tm |-> rejected,
        ret |-> StepResult(FALSE, rejected, MSG_NO_TRANSITION),
        raised |-> NoError]

\* step(), branch "transition_key not in self.transitions": reject.
no_transition(cfg, rlist, tm) ==
    LET rejected == save_configuration(cfg,
            [tm EXCEPT !.current_state = first_reject(rlist)])
    IN [tm |-> rejected,
        ret |-> StepResult(FALSE, rejected, MSG_NO_TRANSITION),
        raised |-> NoError]

\* The same part of step() taking any direction other than R and L as S.
apply_transition_lenient(cfg, tm, transition_key) ==
    LET new_state == cfg.transitions[transition_key][1]
        write_symbol == cfg.transitions[transition_key][2]
        direction == cfg.transitions[transition_key][3]
        written == in_place(tm, [tm.tape EXCEPT ![tm.head_position + 1] = write_symbol])
        moved == save_configuration(cfg,
                 [written EXCEPT
                     !.head_position = IF direction \in {"R", "L"}
                                       THEN move_head(@, direction) ELSE @,
                     !.current_state = new_state,
                     !.step_count = @ + 1])
        message == StepMessage(transition_key[1], new_state,
                               transition_key[2], write_symbol, direction)
    IN [tm |-> moved,
        ret |-> IF moved.current_state \in SetOf(cfg.accept_states)
                THEN StepResult(FALSE, moved, MSG_ACCEPT)
                ELSE IF moved.current_state \in SetOf(cfg.reject_states)
                THEN StepResult(FALSE, moved, MSG_REJECT)
                ELSE StepResult(TRUE, moved, message),
        raised |-> NoError]

\* The same part of step() that knows the directions R and L only.
apply_transition_no_stay(cfg, tm, transition_key) ==
    LET new_state == cfg.transitions[transition_key][1]
        write_symbol == cfg.transitions[transition_key][2]
        direction == cfg.transitions[transition_key][3]
        written == in_place(tm, [tm.tape EXCEPT ![tm.head_position + 1] = write_symbol])
    IN IF direction \notin {"R", "L"}
       THEN [tm |-> written, ret |-> None, raised |-> "ValueError"]
       ELSE
         LET moved == save_configuration(cfg,
                 [written EXCEPT
                     !.head_position = move_head(@, direction),
                     !.current_state = new_state,
                     !.step_count = @ + 1])
             message == StepMessage(transition_key[1], new_state,
                                    transition_key[2], write_symbol, direction)
         IN [tm |-> moved,
             ret |-> IF moved.current_state \in SetOf(cfg.accept_states)
                     THEN StepResult(FALSE, moved, MSG_ACCEPT)
                     ELSE IF moved.current_state \in SetOf(cfg.reject_states)
                     THEN StepResult(FALSE, moved, MSG_REJECT)
                     ELSE StepResult(TRUE, moved, message),
             raised |-> NoError]

\* step(), from "new_state, write_symbol, direction = ..." to its end: write,
\* move, change state, count, record and report.
apply_transition(cfg, tm, transition_key) ==
    LET new_state == cfg.transitions[transition_key][1]
        write_symbol == cfg.transitions[transition_key][2]
        direction == cfg.transitions[transition_key][3]
        written == in_place(tm, [tm.tape EXCEPT ![tm.head_position + 1] = write_symbol])
    IN IF direction \notin {"R", "L", "S"}
       THEN [tm |-> written, ret |-> None, raised |-> "ValueError"]
       ELSE
         LET moved == save_configuration(cfg,
                 [written EXCEPT
                     !.head_position = move_head(@, direction),
                     !.current_state = new_state,
                     !.step_count = @ + 1])
             message == StepMessage(transition_key[1], new_state,
                                    transition_key[2], write_symbol, direction)
         IN [tm |-> moved,
             ret |-> IF moved.current_state \in SetOf(cfg.accept_states)
                     THEN StepResult(FALSE, moved, MSG_ACCEPT)
                     ELSE IF moved.current_state \in SetOf(cfg.reject_states)
                     THEN StepResult(FALSE, moved, MSG_REJECT)
                     ELSE StepResult(TRUE, moved, message),
             raised |-> NoError]

\* step() that also records the configuration when the machine has halted.
step_recording_halt(cfg, rlist, tm) ==
    IF tm.current_state \in SetOf(cfg.accept_states)
    THEN [tm |-> save_configuration(cfg, tm),
          ret |-> StepResult(FALSE, tm, MSG_ACCEPT), raised |-> NoError]
    ELSE IF tm.current_state \in SetOf(cfg.reject_states)
    THEN [tm |-> save_configuration(cfg, tm),
          ret |-> StepResult(FALSE, tm, MSG_REJECT), raised |-> NoError]
    ELSE
      LET bounded == ensure_tape_bounds(cfg, tm)
          current_symbol == bounded.tape[bounded.head_position + 1]
          transition_key == <<bounded.current_state, current_symbol>>
      IN IF transition_key \notin DOMAIN cfg.transitions
         THEN no_transition(cfg, rlist, bounded)
         ELSE apply_transition(cfg, bounded, transition_key)

\* step() without the check of the reject set at its start.
step_checking_accept_only(cfg, rlist, tm) ==
    IF tm.current_state \in SetOf(cfg.accept_states)
    THEN [tm |-> tm, ret |-> StepResult(FALSE, tm, MSG_ACCEPT), raised |-> NoError]
    ELSE
      LET bounded == ensure_tape_bounds(cfg, tm)
          current_symbol == bounded.tape[bounded.head_position + 1]
          transition_key == <<bounded.current_state, current_symbol>>
      IN IF transition_key \notin DOMAIN cfg.transitions
         THEN no_transition(cfg, rlist, bounded)
         ELSE apply_transition(cfg, bounded, transition_key)

\* step() without the check of the accept set at its start.
step_checking_reject_only(cfg, rlist, tm) ==
    IF tm.current_state \in SetOf(cfg.reject_states)
    THEN [tm |-> tm, ret |-> StepResult(FALSE, tm, MSG_REJECT), raised |-> NoError]
    ELSE
      LET bounded == ensure_tape_bounds(cfg, tm)
          current_symbol == bounded.tape[bounded.head_position + 1]
          transition_key == <<bounded.current_state, current_symbol>>
      IN IF transition_key \notin DOMAIN cfg.transitions
         THEN no_transition(cfg, rlist, bounded)
         ELSE apply_transition(cfg, bounded, transition_key)

\* step(): the run state it leaves, the tuple it returns and what it raises.
step(cfg, rlist, tm) ==
    IF tm.current_state \in SetOf(cfg.accept_states)
    THEN [tm |-> tm, ret |-> StepResult(FALSE, tm, MSG_ACCEPT), raised |-> NoError]
    ELSE IF tm.current_state \in SetOf(cfg.reject_states)
    THEN [tm |-> tm, ret |-> StepResult(FALSE, tm, MSG_REJECT), raised |-> NoError]
    ELSE
      LET bounded == ensure_tape_bounds(cfg, tm)
          current_symbol == bounded.tape[bounded.head_position + 1]
          transition_key == <<bounded.current_state, current_symbol>>
      IN IF transition_key \notin DOMAIN cfg.transitions
         THEN no_transition(cfg, rlist, bounded)
         ELSE apply_transition(cfg, bounded, transition_key)

\* The for loop of run(): i iterations of range(max_steps) are already done.
RECURSIVE run_loop(_, _, _, _, _, _, _)
run_loop(cfg, rlist, tm, results, i, step_by_step, max_steps) ==
    IF i >= max_steps
    THEN [tm |-> tm, results |-> results, raised |-> NoError]
    ELSE LET r == step(cfg, rlist, tm)
         IN IF r.raised # NoError
            THEN [tm |-> r.tm, results |-> results, raised |-> r.raised]
            ELSE IF ~r.ret[1] \/ step_by_step
            THEN [tm |-> r.tm, results |-> Append(results, r.ret), raised |-> NoError]
            ELSE run_loop(cfg, rlist, r.tm, Append(results, r.ret), i + 1,
                          step_by_step, max_steps)

\* The step-limit test with > in place of >=.
limit_exceeded(tm, max_steps) == tm.step_count > max_steps

\* Whether run() takes its step-limit branch after the loop.
limit_reached(tm, max_steps) == tm.step_count >= max_steps

\* run(input_string, step_by_step, delay, max_steps); delay only sleeps.
run(cfg, rlist, tm, input_string, step_by_step, max_steps) ==
    LET looped == run_loop(cfg, rlist, reset(cfg, tm, input_string), <<>>, 0,
                           step_by_step, max_steps)
    IN IF looped.raised # NoError
       THEN [tm |-> looped.tm, ret |-> None, raised |-> looped.raised]
       ELSE IF limit_reached(looped.tm, max_steps)
       THEN LET forced == [looped.tm EXCEPT !.current_state = first_reject(rlist)]
            IN [tm |-> forced,
                ret |-> Append(looped.results,
                               StepResult(FALSE, forced, MSG_MAX_STEPS)),
                raised |-> NoError]
       ELSE [tm |-> looped.tm, ret |-> looped.results, raised |-> NoError]

\* get_status(): the run state it leaves and the dict it returns.
get_status(cfg, tm) ==
    LET bounded == ensure_tape_bounds(cfg, tm)
    IN [tm |-> bounded,
        ret |-> [state |-> bounded.current_state,
                 tape |-> bounded.tape,
                 head |-> bounded.head_position,
                 step |-> bounded.step_count,
                 is_accepting |-> bounded.current_state \in SetOf(cfg.accept_states),
                 is_rejecting |-> bounded.current_state \in SetOf(cfg.reject_states),
                 is_running |-> /\ bounded.current_state \notin SetOf(cfg.accept_states)
                                /\ bounded.current_state \notin SetOf(cfg.reject_states)],
        raised |-> NoError]

(***************************************************************************)
(* Inputs of the exploration.                                              *)
(***************************************************************************)
\* A symbol that belongs to no alphabet of any definition.
OTHER_SYMBOL == "c"

\* The strings handed to reset and run: every string over the input alphabet
\* of the definition, and strings that end in a symbol outside every alphabet.
Inputs(cfg) ==
    Strs(SetOf(cfg.alphabet), MaxLen)
        \cup {s \o <<OTHER_SYMBOL>> : s \in Strs(SetOf(cfg.alphabet), 1)}

\* The max_steps values handed to run.
StepLimits == 0..MaxRunSteps

\* validate_input_string(input_string, alphabet)[0]
validate_input_string(input_string, alphabet) ==
    IF input_string = <<>> THEN TRUE
    ELSE SetOf(input_string) \ SetOf(alphabet) = {}

Halted == current_state \in accept_states \cup reject_states

(***************************************************************************)
(* Operations.                                                             *)
(***************************************************************************)
\* __init__: the fields of a freshly constructed engine.
init(cfg) ==
    [tape |-> <<>>, head_position |-> 0, current_state |-> cfg.initial_state,
     history |-> <<>>, step_count |-> 0, tape_refs |-> {}]

\* __init__ without the check of the blank symbol.
init_raises_never(cfg) == NoError

\* __init__ raises when the blank symbol is not in the tape alphabet.
init_raises(cfg) ==
    IF cfg.blank_symbol \notin SetOf(cfg.tape_alphabet) THEN "ValueError" ELSE NoError

\* No engine exists when the constructor raised.
Constructed == ~(call.op = "__init__" /\ raised # NoError)

\* TuringMachineGUI.__init__ and _build_ui: no engine, both flags False,
\* the three execution buttons disabled, no worker thread.
gui_init ==
    [tm |-> None, is_running |-> FALSE, is_paused |-> FALSE,
     step_btn |-> "disabled", run_btn |-> "disabled", pause_btn |-> "disabled",
     result_label |-> "---",
     after |-> <<>>,
     threads |-> [t \in 1..MaxThreads |->
                    [pc |-> "none", continuar |-> TRUE, estado |-> None]]]

SetSelf(tm) ==
    /\ tape' = tm.tape
    /\ head_position' = tm.head_position
    /\ current_state' = tm.current_state
    /\ history' = tm.history
    /\ step_count' = tm.step_count
    /\ tape_refs' = tm.tape_refs

Init ==
    /\ defn \in DOMAIN ALL_MACHINES
    /\ reject_list \in Orders(SetOf(get_machine_config(defn).reject_states))
    /\ tape = init(get_machine_config(defn)).tape
    /\ head_position = init(get_machine_config(defn)).head_position
    /\ current_state = init(get_machine_config(defn)).current_state
    /\ history = init(get_machine_config(defn)).history
    /\ step_count = init(get_machine_config(defn)).step_count
    /\ tape_refs = init(get_machine_config(defn)).tape_refs
    /\ call = [op |-> "__init__"]
    /\ ret = None
    /\ raised = init_raises(get_machine_config(defn))
    /\ loaded = <<>>
    /\ gui = gui_init

\* A further engine is constructed from the same definition; it replaces
\* the one the calls are made on.
Construct ==
    /\ reject_list' \in Orders(reject_states)
    /\ SetSelf(init(Config))
    /\ call' = [op |-> "__init__"]
    /\ ret' = None
    /\ raised' = init_raises(Config)
    /\ loaded' = <<>>
    /\ UNCHANGED <<defn, gui>>

Reset(input_string) ==
    /\ Constructed
    /\ SetSelf(reset(Config, Self, input_string))
    /\ call' = [op |-> "reset", input_string |-> input_string]
    /\ ret' = None
    /\ raised' = NoError
    /\ loaded' = <<input_string>>
    /\ UNCHANGED <<defn, reject_list, gui>>

Step ==
    /\ Constructed
    /\ Halted \/ (step_count < MaxStepCalls /\ Len(history) <= MaxStepCalls)
    /\ LET r == step(Config, reject_list, Self)
       IN /\ SetSelf(r.tm)
          /\ ret' = r.ret
          /\ raised' = r.raised
    /\ call' = [op |-> "step"]
    /\ UNCHANGED <<defn, reject_list, loaded, gui>>

Run(input_string, step_by_step, max_steps) ==
    /\ Constructed
    /\ LET r == run(Config, reject_list, Self, input_string, step_by_step, max_steps)
       IN /\ SetSelf(r.tm)
          /\ ret' = r.ret
          /\ raised' = r.raised
    /\ call' = [op |-> "run", input_string |-> input_string,
                step_by_step |-> step_by_step, max_steps |-> max_steps]
    /\ loaded' = <<input_string>>
    /\ UNCHANGED <<defn, reject_list, gui>>

GetStatus ==
    /\ Constructed
    /\ LET r == get_status(Config, Self)
       IN /\ SetSelf(r.tm)
          /\ ret' = r.ret
          /\ raised' = r.raised
    /\ call' = [op |-> "get_status"]
    /\ UNCHANGED <<defn, reject_list, loaded, gui>>

Next ==
    \/ Construct
    \/ \E s \in Inputs(Config) : Reset(s)
    \/ Step
    \/ \E s \in Inputs(Config), sbs \in BOOLEAN, m \in StepLimits : Run(s, sbs, m)
    \/ GetStatus

Spec == Init /\ [][Next]_vars

(***************************************************************************)
(* The engine together with a caller that writes into a tape it was        *)
(* handed.  No code of the repository does so; the action stands for any   *)
(* caller of step(), run() and get_status() that changes the list it got.  *)
(***************************************************************************)
\* The tape inside the value the last call returned.
returned_tape ==
    CASE call.op = "step" -> ret[3]
      [] call.op = "get_status" -> ret.tape
      [] call.op = "run" -> ret[Len(ret)][3]

\* returned[2][0] = x, status['tape'][0] = x: the write lands in the list the
\* caller holds, and in self.tape if that is the same object.
CallerWrites ==
    /\ Constructed
    /\ call.op \in {"step", "get_status", "run"}
    /\ raised = NoError
    /\ returned_tape # <<>>
    /\ LET cells == [returned_tape EXCEPT ![1] = OTHER_SYMBOL]
       IN /\ ret' = CASE call.op = "step" -> [ret EXCEPT ![3] = cells]
                       [] call.op = "get_status" -> [ret EXCEPT !.tape = cells]
                       [] call.op = "run" -> [ret EXCEPT ![Len(ret)][3] = cells]
          /\ IF 0 \in tape_refs
             THEN SetSelf(in_place(Self, cells))
             ELSE UNCHANGED <<tape, head_position, current_state, history,
                              step_count, tape_refs>>
    /\ call' = [op |-> "caller_write", of |-> call.op]
    /\ UNCHANGED <<defn, reject_list, raised, loaded, gui>>

NextCaller ==
    \/ Next
    \/ CallerWrites

SpecCaller == Init /\ [][NextCaller]_vars

(***************************************************************************)
(* The step-limit scenario: engines of definitions that never halt, driven *)
(* by run with max_steps = ScenarioMaxSteps.                               *)
(***************************************************************************)
\* A definition whose table has an entry for every pair of a non-halting
\* state and a tape symbol, none of which leads to an accept or reject
\* state: on a tape over its tape alphabet it cycles forever.
CyclesForever(cfg) ==
    LET halting == SetOf(cfg.accept_states) \cup SetOf(cfg.reject_states)
    IN /\ cfg.initial_state \notin halting
       /\ cfg.blank_symbol \in SetOf(cfg.tape_alphabet)
       /\ \A q \in SetOf(cfg.states) \ halting, x \in SetOf(cfg.tape_alphabet) :
            /\ <<q, x>> \in DOMAIN cfg.transitions
            /\ cfg.transitions[<<q, x>>][1] \in SetOf(cfg.states) \ halting
            /\ cfg.transitions[<<q, x>>][2] \in SetOf(cfg.tape_alphabet)
            /\ cfg.transitions[<<q, x>>][3] \in {"R", "L", "S"}

LoopingNames == {n \in DOMAIN ALL_MACHINES : CyclesForever(ALL_MACHINES[n])}

InitScenario == Init /\ defn \in LoopingNames

NextScenario ==
    \/ Construct
    \/ \E s \in Inputs(Config), sbs \in BOOLEAN : Run(s, sbs, ScenarioMaxSteps)
    \/ Step
    \/ GetStatus

SpecScenario == InitScenario /\ [][NextScenario]_vars

(***************************************************************************)
(* The test harness: utils.test_regex_with_strings and the cases of        *)
(* tests/test_expressions.py.                                              *)
(***************************************************************************)
TEST_STEP_CALLS == 1000

\* The (string, expected) pairs of test_regex_1 .. test_regex_5.
TEST_CASES ==
    ("(a|b)*abb" :> <<
        <<<<"a", "b", "b">>, TRUE>>,
        <<<<"a", "a", "b", "b">>, TRUE>>,
        <<<<"b", "a", "b", "a", "b", "b">>, TRUE>>,
        <<<<"a", "b", "b", "a", "b", "b">>, TRUE>>,
        <<<<"a", "b">>, FALSE>>,
        <<<<"a", "b", "a">>, FALSE>>,
        <<<<"b", "a">>, FALSE>>,
        <<<<"b", "b">>, FALSE>>,
        <<<<>>, FALSE>> >>) @@
    ("0*1*" :> <<
        <<<<>>, TRUE>>,
        <<<<"0">>, TRUE>>,
        <<<<"1">>, TRUE>>,
        <<<<"0", "0">>, TRUE>>,
        <<<<"1", "1">>, TRUE>>,
        <<<<"0", "0", "1">>, TRUE>>,
        <<<<"0", "0", "0", "1", "1", "1">>, TRUE>>,
        <<<<"1", "0">>, FALSE>>,
        <<<<"0", "1">>, FALSE>>,
        <<<<"0", "1", "0">>, FALSE>> >>) @@
    ("(ab)*" :> <<
        <<<<>>, TRUE>>,
        <<<<"a", "b">>, TRUE>>,
        <<<<"a", "b", "a", "b">>, TRUE>>,
        <<<<"a", "b", "a", "b", "a", "b">>, TRUE>>,
        <<<<"a">>, FALSE>>,
        <<<<"b">>, FALSE>>,
        <<<<"a", "b", "a">>, FALSE>>,
        <<<<"b", "a">>, FALSE>>,
        <<<<"a", "b", "a", "b", "a", "b", "a", "b">>, TRUE>> >>) @@
    ("1(01)*0" :> <<
        <<<<"1", "0">>, TRUE>>,
        <<<<"1", "0", "1", "0">>, TRUE>>,
        <<<<"1", "0", "1", "0", "1", "0">>, TRUE>>,
        <<<<"1">>, FALSE>>,
        <<<<"0">>, FALSE>>,
        <<<<"1", "1">>, FALSE>>,
        <<<<"0", "0">>, FALSE>>,
        <<<<"1", "0", "1">>, FALSE>>,
        <<<<"0", "1", "0">>, FALSE>> >>) @@
    ("(a+b)*a(a+b)*" :> <<
        <<<<"a">>, TRUE>>,
        <<<<"b", "a">>, TRUE>>,
        <<<<"a", "b">>, TRUE>>,
        <<<<"b", "a", "b">>, TRUE>>,
        <<<<"a", "a", "b", "b">>, TRUE>>,
        <<<<"b", "b", "a", "a">>, TRUE>>,
        <<<<>>, FALSE>>,
        <<<<"b">>, FALSE>>,
        <<<<"b", "b">>, FALSE>>,
        <<<<"b", "b", "b">>, FALSE>> >>)

\* The inner loop of test_regex_with_strings: up to TEST_STEP_CALLS calls of
\* step(), stopping at the first that returns continuar = False; i calls are
\* already made.  Yields the run state and the last estado.
RECURSIVE step_until_halt(_, _, _, _, _)
step_until_halt(cfg, rlist, tm, estado, i) ==
    IF i >= TEST_STEP_CALLS THEN [tm |-> tm, estado |-> estado]
    ELSE LET r == step(cfg, rlist, tm)
         IN IF ~r.ret[1] THEN [tm |-> r.tm, estado |-> r.ret[2]]
            ELSE step_until_halt(cfg, rlist, r.tm, r.ret[2], i + 1)

\* The outer loop of test_regex_with_strings: the cases before index i are
\* done, results holds their outcome.
RECURSIVE test_loop(_, _, _, _, _, _)
test_loop(cfg, rlist, tm, test_strings, i, results) ==
    IF i > Len(test_strings) THEN [tm |-> tm, results |-> results]
    ELSE LET test_string == test_strings[i][1]
             expected == test_strings[i][2]
             halted == step_until_halt(cfg, rlist, reset(cfg, tm, test_string),
                                       None, 0)
             accepted == halted.estado \in SetOf(cfg.accept_states)
             passed == (accepted = expected)
         IN test_loop(cfg, rlist, halted.tm, test_strings, i + 1,
                [results EXCEPT
                    !.details = Append(@, [string |-> test_string,
                                           expected |-> expected,
                                           got |-> accepted,
                                           passed |-> passed]),
                    !.passed = IF passed THEN @ + 1 ELSE @,
                    !.failed = IF passed THEN @ ELSE @ + 1])

\* test_regex_with_strings(regex_name, test_strings) on the engine tm that it
\* constructs.
test_regex_with_strings(cfg, rlist, test_strings) ==
    test_loop(cfg, rlist, init(cfg), test_strings, 1,
              [total |-> Len(test_strings), passed |-> 0, failed |-> 0,
               details |-> <<>>])

\* The strings of the language checks: over the input alphabet only.
LangInputs(cfg) == Strs(SetOf(cfg.alphabet), LangLen)

\* test_regex_with_strings constructs its own engine of the named sample
\* definition; the variables show that engine when the function returns.
TestRegexWithStrings(regex_name, test_strings) ==
    /\ defn' = regex_name
    /\ reject_list' \in Orders(SetOf(get_machine_config(regex_name).reject_states))
    /\ LET r == test_regex_with_strings(get_machine_config(regex_name),
                                        reject_list', test_strings)
       IN /\ SetSelf(r.tm)
          /\ ret' = r.results
    /\ raised' = NoError
    /\ call' = [op |-> "test_regex_with_strings", regex_name |-> regex_name,
                test_strings |-> test_strings]
    /\ loaded' = IF test_strings = <<>> THEN <<>>
                 ELSE <<test_strings[Len(test_strings)][1]>>
    /\ UNCHANGED gui

\* test_regex_with_strings with a name that get_machine_config does not know.
TestUnknownRegex ==
    /\ call' = [op |-> "test_regex_with_strings", regex_name |-> "unknown",
                test_strings |-> <<>>]
    /\ ret' = [error |-> "Expresión regular 'unknown' no encontrada"]
    /\ raised' = NoError
    /\ UNCHANGED <<defn, reject_list, tape, head_position, current_state,
                   history, step_count, loaded, tape_refs, gui>>

\* The dict `examples` of get_examples_for_regex.
EXAMPLES ==
    ("(a|b)*abb" :>
        [accepted |-> <<<<"a", "b", "b">>, <<"a", "a", "b", "b">>,
                         <<"b", "a", "b", "a", "b", "b">>,
                         <<"a", "b", "b", "a", "b", "b">>>>,
         rejected |-> <<<<"a", "b">>, <<"a", "b", "a">>, <<"b", "a">>,
                         <<"b", "b">>>>]) @@
    ("0*1*" :>
        [accepted |-> <<<<>>, <<"0">>, <<"1">>, <<"0", "0">>, <<"1", "1">>,
                         <<"0", "0", "1">>, <<"0", "0", "0", "1", "1", "1">>>>,
         rejected |-> <<<<"1", "0">>, <<"0", "1">>, <<"0", "1", "0">>,
                         <<"1", "0", "1">>>>]) @@
    ("(ab)*" :>
        [accepted |-> <<<<>>, <<"a", "b">>, <<"a", "b", "a", "b">>,
                         <<"a", "b", "a", "b", "a", "b">>>>,
         rejected |-> <<<<"a">>, <<"b">>, <<"a", "b", "a">>, <<"b", "a">>,
                         <<"a", "b", "a", "b", "a", "b", "a", "b">>>>]) @@
    ("1(01)*0" :>
        [accepted |-> <<<<"1", "0">>, <<"1", "0", "1", "0">>,
                         <<"1", "0", "1", "0", "1", "0">>,
                         <<"1", "0", "1", "0", "1", "0", "1", "0">>>>,
         rejected |-> <<<<"1">>, <<"0">>, <<"1", "1">>, <<"0", "0">>,
                         <<"1", "0", "1">>, <<"0", "1", "0">>>>]) @@
    ("(a+b)*a(a+b)*" :>
        [accepted |-> <<<<"a">>, <<"b", "a">>, <<"a", "b">>,
                         <<"b", "a", "b">>, <<"a", "a", "b", "b">>,
                         <<"b", "b", "a", "a">>>>,
         rejected |-> <<<<>>, <<"b">>, <<"b", "b">>, <<"b", "b", "b">>>>])

\* get_examples_for_regex(regex_name)
get_examples_for_regex(regex_name) ==
    IF regex_name \in DOMAIN EXAMPLES THEN EXAMPLES[regex_name]
    ELSE [accepted |-> <<>>, rejected |-> <<>>]

\* The examples of a regex as (string, expected) pairs: True for the accepted
\* ones, False for the rejected ones.
example_cases(regex_name) ==
    LET examples == get_examples_for_regex(regex_name)
    IN [i \in DOMAIN examples.accepted |-> <<examples.accepted[i], TRUE>>]
       \o [i \in DOMAIN examples.rejected |-> <<examples.rejected[i], FALSE>>]

InitLang == Init /\ defn \in SampleNames

NextLang ==
    \/ \E n \in SampleNames : TestRegexWithStrings(n, TEST_CASES[n])
    \/ \E n \in SampleNames : TestRegexWithStrings(n, example_cases(n))
    \/ \E n \in SampleNames : \E s \in LangInputs(get_machine_config(n)),
          e \in BOOLEAN : TestRegexWithStrings(n, <<<<s, e>>>>)
    \/ TestUnknownRegex

SpecLang == InitLang /\ [][NextLang]_vars

(***************************************************************************)
(* The window of src/src/gui.py.  The button handlers and the callbacks    *)
(* handed to root.after run one at a time on the main thread.  Every       *)
(* "Ejecutar Todo" starts a thread running _run_thread; the steps of the   *)
(* threads interleave with the handlers and with each other.  A call of    *)
(* step() by a thread takes two steps here: the call is entered, and       *)
(* later it returns with its whole effect.  The text of the history box    *)
(* and of the result label is left out: it is written and never read.      *)
(***************************************************************************)
\* max_steps of _run_thread
GUI_MAX_STEPS == 1000

\* The texts of self.result_label, without their leading check mark or cross.
LABEL_NONE == "---"
LABEL_ACCEPTED == "CADENA ACEPTADA"
LABEL_REJECTED == "CADENA RECHAZADA"
LABEL_MAX_STEPS == "RECHAZADA: Máximo de pasos"

\* The label text a halted step leads to: "if estado in self.tm.accept_states".
result_text(cfg, estado) ==
    IF estado \in SetOf(cfg.accept_states) THEN LABEL_ACCEPTED ELSE LABEL_REJECTED

\* The definitions selected in the window: two of the five samples.
GuiNames == {"(ab)*", "0*1*"}

\* The strings typed into the entry field: strings over the input alphabet
\* of the definition, and one with a symbol outside every alphabet.
GuiInputs(cfg) == Strs(SetOf(cfg.alphabet), GuiLen) \cup {<<OTHER_SYMBOL>>}

\* self.root.after(0, callback)
after(g, callback) == [g EXCEPT !.after = Append(@, callback)]

\* The buttons as _load_machine, _reset_machine, _enable_buttons_after_run
\* and _enable_buttons_after_pause leave them.
enable_buttons(g) ==
    [g EXCEPT !.step_btn = "normal", !.run_btn = "normal",
              !.pause_btn = "disabled"]

\* _load_machine ("Cargar"): a new engine of the selected sample definition,
\* reset with the typed string and displayed.
load_machine(regex_name, input_string) ==
    LET config == get_machine_config(regex_name)
    IN /\ \A i \in DOMAIN input_string : input_string[i] \in SetOf(config.alphabet)
       /\ init_raises(config) = NoError
       /\ defn' = regex_name
       /\ reject_list' \in Orders(SetOf(config.reject_states))
       /\ LET shown == get_status(config, reset(config, init(config), input_string))
          IN /\ SetSelf(shown.tm)
             /\ ret' = shown.ret
             /\ raised' = shown.raised
       /\ call' = [op |-> "get_status"]
       /\ loaded' = <<input_string>>
       /\ gui' = enable_buttons([gui EXCEPT !.tm = "TuringMachine",
                                            !.is_running = FALSE,
                                            !.is_paused = FALSE,
                                            !.result_label = LABEL_NONE])

\* _reset_machine ("Resetear")
reset_machine(input_string) ==
    /\ gui.tm # None
    /\ LET shown == get_status(Config, reset(Config, Self, input_string))
       IN /\ SetSelf(shown.tm)
          /\ ret' = shown.ret
          /\ raised' = shown.raised
    /\ call' = [op |-> "get_status"]
    /\ loaded' = <<input_string>>
    /\ gui' = enable_buttons([gui EXCEPT !.is_running = FALSE,
                                         !.is_paused = FALSE,
                                         !.result_label = LABEL_NONE])
    /\ UNCHANGED <<defn, reject_list>>

\* _step_execution ("Siguiente Paso")
step_execution ==
    /\ gui.step_btn = "normal"
    /\ gui.tm # None
    /\ LET r == step(Config, reject_list, Self)
           shown == get_status(Config, r.tm)
       IN /\ r.raised = NoError
          /\ SetSelf(shown.tm)
          /\ ret' = shown.ret
          /\ raised' = shown.raised
          /\ gui' = IF r.ret[1] THEN gui
                    ELSE [gui EXCEPT !.step_btn = "disabled",
                                     !.run_btn = "disabled",
                                     !.result_label = result_text(Config, r.ret[2])]
    /\ call' = [op |-> "get_status"]
    /\ UNCHANGED <<defn, reject_list, loaded>>

\* _run_execution ("Ejecutar Todo"): starts the thread t.
run_execution(t) ==
    /\ gui.run_btn = "normal"
    /\ gui.tm # None
    /\ ~gui.is_running
    /\ gui.threads[t].pc = "none"
    /\ gui' = [gui EXCEPT !.step_btn = "disabled", !.run_btn = "disabled",
                          !.pause_btn = "normal",
                          !.is_running = TRUE, !.is_paused = FALSE,
                          !.threads[t].pc = "while"]
    /\ UNCHANGED <<defn, reject_list, tape, head_position, current_state,
                   history, step_count, call, ret, raised, loaded, tape_refs>>

\* _pause_execution ("Pausar")
pause_execution ==
    /\ gui.pause_btn = "normal"
    /\ gui' = [gui EXCEPT !.is_running = FALSE, !.is_paused = TRUE]
    /\ UNCHANGED <<defn, reject_list, tape, head_position, current_state,
                   history, step_count, call, ret, raised, loaded, tape_refs>>

\* _run_thread, "while self.is_running and not self.is_paused": the thread
\* enters step(), or leaves the loop.
run_thread_while(t) ==
    /\ gui.threads[t].pc = "while"
    /\ gui' = [gui EXCEPT !.threads[t].pc =
                  IF gui.is_running /\ ~gui.is_paused /\ gui.tm # None
                  THEN "step" ELSE "end"]
    /\ UNCHANGED <<defn, reject_list, tape, head_position, current_state,
                   history, step_count, call, ret, raised, loaded, tape_refs>>

\* _run_thread: self.tm.step() returns and the display update is handed to
\* the main thread.
run_thread_step(t) ==
    /\ gui.threads[t].pc = "step"
    /\ Len(gui.after) < MaxAfter
    /\ LET r == step(Config, reject_list, Self)
       IN /\ r.raised = NoError
          /\ SetSelf(r.tm)
          /\ ret' = r.ret
          /\ raised' = r.raised
          /\ gui' = after([gui EXCEPT !.threads[t] =
                              [pc |-> "sleep", continuar |-> r.ret[1],
                               estado |-> r.ret[2]]],
                          "update_display")
    /\ call' = [op |-> "step"]
    /\ UNCHANGED <<defn, reject_list, loaded>>

\* _run_thread: time.sleep returns; the thread leaves the loop when its step
\* halted the machine or the step limit is reached, and tests the flags again
\* otherwise.
run_thread_sleep(t) ==
    /\ gui.threads[t].pc = "sleep"
    /\ ~gui.threads[t].continuar \/ step_count >= GUI_MAX_STEPS
          => Len(gui.after) + 2 <= MaxAfter
    /\ gui' = LET stopped == [gui EXCEPT !.is_running = FALSE,
                                         !.threads[t].pc = "end"]
              IN IF ~gui.threads[t].continuar
                 THEN after(after(stopped,
                                  result_text(Config, gui.threads[t].estado)),
                            "enable_buttons_after_run")
                 ELSE IF step_count >= GUI_MAX_STEPS
                 THEN after(after(stopped, LABEL_MAX_STEPS),
                            "enable_buttons_after_run")
                 ELSE [gui EXCEPT !.threads[t].pc = "while"]
    /\ UNCHANGED <<defn, reject_list, tape, head_position, current_state,
                   history, step_count, call, ret, raised, loaded, tape_refs>>

\* _run_thread, "if self.is_paused" after the loop; the thread ends.
run_thread_end(t) ==
    /\ gui.threads[t].pc = "end"
    /\ gui.is_paused => Len(gui.after) < MaxAfter
    /\ gui' = LET ended == [gui EXCEPT !.threads[t] = gui_init.threads[t]]
              IN IF gui.is_paused
                 THEN after(ended, "enable_buttons_after_pause")
                 ELSE ended
    /\ UNCHANGED <<defn, reject_list, tape, head_position, current_state,
                   history, step_count, call, ret, raised, loaded, tape_refs>>

\* The main thread runs the oldest callback handed to root.after:
\* _update_display calls get_status(), a label callback sets the text of
\* result_label, the others enable the buttons.
after_callback ==
    /\ gui.after # <<>>
    /\ IF Head(gui.after) = "update_display"
       THEN /\ gui.tm # None
            /\ LET shown == get_status(Config, Self)
               IN /\ SetSelf(shown.tm)
                  /\ ret' = shown.ret
                  /\ raised' = shown.raised
            /\ call' = [op |-> "get_status"]
            /\ gui' = [gui EXCEPT !.after = Tail(@)]
       ELSE /\ gui' = IF Head(gui.after)
                           \in {LABEL_ACCEPTED, LABEL_REJECTED, LABEL_MAX_STEPS}
                      THEN [gui EXCEPT !.after = Tail(@),
                                       !.result_label = Head(gui.after)]
                      ELSE enable_buttons([gui EXCEPT !.after = Tail(@)])
            /\ UNCHANGED <<tape, head_position, current_state, history,
                           step_count, call, ret, raised, tape_refs>>
    /\ UNCHANGED <<defn, reject_list, loaded>>

InitGui == Init /\ defn \in GuiNames

NextGui ==
    \/ \E n \in GuiNames : \E s \in GuiInputs(get_machine_config(n)) :
          load_machine(n, s)
    \/ \E s \in GuiInputs(Config) : reset_machine(s)
    \/ step_execution
    \/ \E t \in 1..MaxThreads : run_execution(t)
    \/ pause_execution
    \/ \E t \in 1..MaxThreads : run_thread_while(t)
    \/ \E t \in 1..MaxThreads : run_thread_step(t)
    \/ \E t \in 1..MaxThreads : run_thread_sleep(t)
    \/ \E t \in 1..MaxThreads : run_thread_end(t)
    \/ after_callback

SpecGui == InitGui /\ [][NextGui]_vars

(***************************************************************************)
(* Properties.                                                             *)
(***************************************************************************)
\* The symbol step() reads in the current state: the cell under the head
\* once the buffer covers the head.
SymbolUnderHead ==
    LET bounded == ensure_tape_bounds(Config, Self)
    IN bounded.tape[bounded.head_position + 1]

\* The next call is step() on a machine that has not halted.
StepOnRunning == call'.op = "step" /\ Constructed /\ ~Halted

HeadOffset(direction) ==
    CASE direction = "R" -> 1
      [] direction = "L" -> -1
      [] direction = "S" -> 0

\* C1: a step() on a non-halted machine whose table has an entry
\* (next, write, dir), dir in {R, L, S}, for the current state and the symbol
\* under the head writes `write` into that cell, moves the head by +1, -1 or 0,
\* makes `next` the current state, adds exactly 1 to step_count and appends
\* exactly one history entry.
C1_StepAppliesTransition ==
    [][(/\ StepOnRunning
        /\ <<current_state, SymbolUnderHead>> \in DOMAIN Config.transitions
        /\ Config.transitions[<<current_state, SymbolUnderHead>>][3]
              \in {"R", "L", "S"})
       => LET bounded == ensure_tape_bounds(Config, Self)
              entry == Config.transitions[<<current_state, SymbolUnderHead>>]
          IN /\ raised' = NoError
             /\ tape' = [bounded.tape EXCEPT ![bounded.head_position + 1] = entry[2]]
             /\ head_position' = bounded.head_position + HeadOffset(entry[3])
             /\ current_state' = entry[1]
             /\ step_count' = step_count + 1
             /\ Len(history') = Len(history) + 1
             /\ SubSeq(history', 1, Len(history)) = history]_vars

\* A step has just applied a left move that rewrote a blank cell.
C1_Witness ==
    /\ call.op = "step"
    /\ raised = NoError
    /\ ret[1]
    /\ ret[5] = StepMessage("q0", "q0", "_", "a", "L")
    /\ step_count = 2

\* C2: right after reset(s) the tape is 5 blanks, s, 5 blanks; the head is at
\* index 5; the current state is the initial state; step_count is 0; history
\* holds the single entry (step 0, initial state, initial tape, head 5); and
\* get_status() reports the same values.
C2_ResetConfiguration ==
    call.op = "reset" =>
        LET blanks == [i \in 1..5 |-> Config.blank_symbol]
            status == get_status(Config, Self).ret
        IN /\ tape = blanks \o call.input_string \o blanks
           /\ head_position = 5
           /\ current_state = Config.initial_state
           /\ step_count = 0
           /\ Len(history) = 1
           /\ history[1].step = 0
           /\ history[1].state = Config.initial_state
           /\ history[1].tape = tape
           /\ history[1].head = 5
           /\ status.state = Config.initial_state
           /\ status.tape = tape
           /\ status.head = 5
           /\ status.step = 0

\* reset was just called with a non-empty string whose first symbol is under
\* the head.
C2_Witness ==
    /\ call.op = "reset"
    /\ call.input_string # <<>>
    /\ tape[head_position + 1] = call.input_string[1]

\* C3: once a step() after a reset has returned continue = false, a further
\* step() (no reset in between) returns the same result (flag, state, tape,
\* head position and message) and leaves step_count as it was.
C3_TerminalStepIdempotent ==
    [][(/\ loaded # <<>>
        /\ call.op = "step"
        /\ raised = NoError
        /\ ~ret[1]
        /\ call'.op = "step")
       => (/\ raised' = NoError
           /\ ret' = ret
           /\ step_count' = step_count)]_vars

\* C4: a step() that reads a (state, symbol) pair without entry, on an engine
\* whose reject set is non-empty, leaves the current state in the reject set
\* and returns continue = false with the no-transition message; get_status()
\* then reports is_rejecting.
C4_UndefinedTransitionRejects ==
    [][(/\ StepOnRunning
        /\ reject_states # {}
        /\ <<current_state, SymbolUnderHead>> \notin DOMAIN Config.transitions)
       => (/\ raised' = NoError
           /\ current_state' \in reject_states
           /\ ret'[1] = FALSE
           /\ ret'[2] = current_state'
           /\ ret'[5] = <<"RECHAZADA: No hay transición definida">>
           /\ get_status(Config, Self').ret.is_rejecting)]_vars

\* A step has just rejected for want of a transition on the symbol outside
\* the alphabet, on an engine with two reject states.
C4_Witness ==
    /\ call.op = "step"
    /\ raised = NoError
    /\ ret[5] = MSG_NO_TRANSITION
    /\ Cardinality(reject_states) = 2
    /\ tape[head_position + 1] = OTHER_SYMBOL

\* The results the loop of run() produced: ret without the step-limit result.
LoopResults ==
    IF ret # <<>> /\ ret[Len(ret)][5] = MSG_MAX_STEPS
    THEN SubSeq(ret, 1, Len(ret) - 1)
    ELSE ret

\* C5: run(input, max_steps) ends with the step-limit rejection exactly when
\* the machine is still running after max_steps steps; a machine that reaches
\* an accept state within max_steps steps, also at step number max_steps, ends
\* with the result Accepted as its last and the current state accepting.
C5_LimitOnlyWhileRunning ==
    (call.op = "run" /\ raised = NoError /\ ~call.step_by_step) =>
        /\ (ret # <<>> /\ ret[Len(ret)][5] = MSG_MAX_STEPS)
             <=> (/\ Len(LoopResults) = call.max_steps
                  /\ \A i \in DOMAIN LoopResults : LoopResults[i][1])
        /\ (\E i \in DOMAIN LoopResults : LoopResults[i][5] = MSG_ACCEPT)
             => (/\ ret[Len(ret)][5] = MSG_ACCEPT
                 /\ current_state \in accept_states)

\* C8: the results of run(input, step_by_step, max_steps) are a function of
\* the definition and the arguments: an engine constructed afresh from the
\* same definition, whatever the order in which its reject set iterates,
\* returns the same sequence of step results.
C8_RunDeterministic ==
    (call.op = "run" /\ raised = NoError) =>
        \A order \in Orders(reject_states) :
            LET other == run(Config, order, init(Config), call.input_string,
                             call.step_by_step, call.max_steps)
            IN other.raised = NoError /\ other.ret = ret

\* C9: get_status() on an engine that has been reset leaves tape,
\* head_position, current_state, step_count and history as they were.
C9_GetStatusPure ==
    [][(loaded # <<>> /\ call'.op = "get_status")
       => UNCHANGED <<tape, head_position, current_state, step_count, history>>]_vars

InLanguage(name, s) ==
    CASE name = "(a|b)*abb" ->
            /\ SetOf(s) \subseteq {"a", "b"}
            /\ Len(s) >= 3
            /\ s[Len(s) - 2] = "a" /\ s[Len(s) - 1] = "b" /\ s[Len(s)] = "b"
      [] name = "0*1*" ->
            /\ SetOf(s) \subseteq {"0", "1"}
            /\ \A i, j \in DOMAIN s : i < j => ~(s[i] = "1" /\ s[j] = "0")
      [] name = "(ab)*" ->
            /\ Len(s) % 2 = 0
            /\ \A i \in DOMAIN s : s[i] = IF i % 2 = 1 THEN "a" ELSE "b"
      [] name = "1(01)*0" ->
            /\ Len(s) % 2 = 0
            /\ Len(s) >= 2
            /\ \A i \in DOMAIN s : s[i] = IF i % 2 = 1 THEN "1" ELSE "0"
      [] name = "(a+b)*a(a+b)*" ->
            /\ SetOf(s) \subseteq {"a", "b"}
            /\ \E i \in DOMAIN s : s[i] = "a"

\* The harness has just decided one string with a sample machine.
DecidedOne ==
    /\ call.op = "test_regex_with_strings"
    /\ call.regex_name \in SampleNames
    /\ Len(call.test_strings) = 1

C7_ListedExpectationsHold ==
    (/\ call.op = "test_regex_with_strings"
     /\ call.regex_name \in SampleNames
     /\ call.test_strings = TEST_CASES[call.regex_name])
    => (/\ ret.failed = 0
        /\ \A i \in DOMAIN ret.details :
              ret.details[i].got = call.test_strings[i][2])

\* C11: run(input, max_steps) without step_by_step returns after at most
\* max_steps calls of step(); the returned list holds the step results in
\* execution order, is non-empty, has at most max_steps + 1 elements, every
\* element but the last has continue = true and the last has continue = false.
C11_RunResultsShape ==
    (call.op = "run" /\ ~call.step_by_step /\ raised = NoError) =>
        /\ Len(LoopResults) <= call.max_steps
        /\ \A i \in DOMAIN LoopResults :
              i + 1 <= Len(history) =>
                 /\ ret[i][2] = history[i + 1].state
                 /\ ret[i][3] = history[i + 1].tape
                 /\ ret[i][4] = history[i + 1].head
        /\ ret # <<>>
        /\ Len(ret) <= call.max_steps + 1
        /\ \A i \in 1..(Len(ret) - 1) : ret[i][1]
        /\ ~ret[Len(ret)][1]

\* C12: a step() called while the current state is in the accept set or in
\* the reject set returns continue = false with the current state, tape and
\* head position, and leaves tape, head_position, current_state, step_count
\* and history as they were.
C12_HaltedStepChangesNothing ==
    [][(call'.op = "step" /\ Constructed /\ Halted)
       => (/\ raised' = NoError
           /\ ret'[1] = FALSE
           /\ ret'[2] = current_state
           /\ ret'[3] = tape
           /\ ret'[4] = head_position
           /\ UNCHANGED <<tape, head_position, current_state, step_count,
                          history>>)]_vars

\* step() was called on a machine that had already rejected before its first
\* transition.
C12_Witness ==
    /\ call.op = "step"
    /\ raised = NoError
    /\ loaded # <<>>
    /\ ret[5] = MSG_REJECT
    /\ step_count = 0

\* C13: a step() that reads a (state, symbol) pair without entry, on an engine
\* whose reject set is empty, raises an error: it returns no step result and
\* does not put the machine into a state outside the definition's states.
C13_EmptyRejectSetFails ==
    [][(/\ StepOnRunning
        /\ reject_states = {}
        /\ <<current_state, SymbolUnderHead>> \notin DOMAIN Config.transitions)
       => (/\ raised' # NoError
           /\ ret' = None
           /\ current_state' \in SetOf(Config.states))]_vars

\* C14: once the engine has been reset, history holds one entry for the reset
\* and one per completed step: Len(history) = step_count + 1 and the i-th
\* entry (counted from 0) records step index i; and no step() removes or
\* changes an entry that is already in history.
C14_HistoryAppendOnly ==
    /\ [](loaded # <<>> =>
            /\ Len(history) = step_count + 1
            /\ \A i \in DOMAIN history : history[i].step = i - 1)
    /\ [][call'.op = "step" =>
            /\ Len(history') >= Len(history)
            /\ SubSeq(history', 1, Len(history)) = history]_vars

\* C15: constructing an engine whose blank symbol is not in the tape alphabet
\* raises an error and leaves no engine to call (the only call that can
\* follow is another construction); constructing one whose blank symbol is in
\* the tape alphabet raises nothing and yields the engine in its initial
\* state.
C15_BlankSymbolValidated ==
    /\ [](call.op = "__init__" =>
            /\ Config.blank_symbol \notin SetOf(Config.tape_alphabet)
                 => (raised # NoError /\ ~Constructed)
            /\ Config.blank_symbol \in SetOf(Config.tape_alphabet)
                 => (/\ raised = NoError
                     /\ Constructed
                     /\ current_state = Config.initial_state
                     /\ step_count = 0
                     /\ ENABLED Step))
    /\ [][~Constructed => call'.op = "__init__"]_vars

\* A construction with a blank symbol outside the tape alphabet has raised.
C15_Witness ==
    /\ call.op = "__init__"
    /\ Config.blank_symbol \notin SetOf(Config.tape_alphabet)
    /\ raised = "ValueError"

\* C16: constructing an engine whose accept set and reject set share a state
\* raises an error.
C16_OverlapRejected ==
    (call.op = "__init__" /\ accept_states \cap reject_states # {})
        => raised # NoError

\* C17: constructing an engine whose initial state is not one of its states
\* raises an error.
C17_UnknownInitialStateRejected ==
    (call.op = "__init__" /\ Config.initial_state \notin SetOf(Config.states))
        => raised # NoError

\* C18: a step() that applies an entry whose direction is none of R, L and S
\* raises an error in that very call and returns no step result.
C18_InvalidDirectionRaises ==
    [][(/\ StepOnRunning
        /\ <<current_state, SymbolUnderHead>> \in DOMAIN Config.transitions
        /\ Config.transitions[<<current_state, SymbolUnderHead>>][3]
              \notin {"R", "L", "S"})
       => (raised' = "ValueError" /\ ret' = None)]_vars

\* A step after a reset has just raised on the entry with direction X.
C18_Witness ==
    /\ call.op = "step"
    /\ loaded # <<>>
    /\ raised = "ValueError"
    /\ ret = None
    /\ Config.transitions[<<current_state, "a">>][3] = "X"

\* The tape after the call is the tape before it, moved right by `shift`
\* cells, with blanks in every other cell; the cells whose index (from 1) is
\* in `rewritten` are left out of the comparison.
GrownBy(shift, rewritten) ==
    /\ Len(tape') >= Len(tape) + shift
    /\ \A i \in DOMAIN tape :
          (i + shift) \notin rewritten => tape'[i + shift] = tape[i]
    /\ \A i \in DOMAIN tape' :
          (i \notin rewritten /\ (i <= shift \/ i > Len(tape) + shift))
             => tape'[i] = Config.blank_symbol

\* C20: growing the tape only adds blank cells. With the head left of the
\* tape, 5 blanks are prepended, the old tape is the part of the new one
\* from index 5 and the head index grows by 5; with the head right of the
\* tape, the old tape is a prefix of the new one, which ends at the head;
\* every added cell, the one under the head among them, holds the blank
\* symbol. (Seen through get_status(), which only grows the tape, and through
\* step(), which grows it and then rewrites the cell under the head.)
C20_GrowthKeepsContent ==
    [][LET shift == IF head_position < 0 THEN 5 ELSE 0
           head == head_position + shift
           length == IF head >= Len(tape) + shift THEN head + 1
                     ELSE Len(tape) + shift
       IN /\ ((call'.op = "get_status" /\ Constructed)
                => (/\ GrownBy(shift, {})
                    /\ Len(tape') = length
                    /\ head_position' = head
                    /\ (tape' # tape => tape'[head + 1] = Config.blank_symbol)))
          /\ (StepOnRunning
                => (/\ GrownBy(shift, {head + 1})
                    /\ Len(tape') = length
                    /\ (Len(tape') # Len(tape)
                          => SymbolUnderHead = Config.blank_symbol)))]_vars

\* get_status() was called with the head one cell left of the tape, six
\* steps after a reset, and the tape grew by 5 cells at its start.
C20_Witness ==
    /\ call.op = "get_status"
    /\ loaded # <<>>
    /\ step_count = 6
    /\ head_position = 4
    /\ Len(tape) = 15 + Len(loaded[1])

\* C19: every tape handed out (in a step result, in the result of
\* get_status(), in a history entry) is a list of its own, never the list
\* object self.tape: no step() and no get_status() changes the tape of an
\* entry already in history, and a caller's write into a returned tape
\* changes neither the engine's tape nor its history.
C19_HandedOutTapesAreCopies ==
    /\ [](tape_refs = {})
    /\ [][(call'.op \in {"step", "get_status"}
             => (\A i \in DOMAIN history :
                   (i \in DOMAIN history' /\ history'[i].tape = history[i].tape)))
          /\ (call'.op = "caller_write"
                => UNCHANGED <<tape, head_position, current_state, history,
                               step_count>>)]_vars

\* The caller has overwritten the first cell of the tape a step() returned;
\* the engine's tape and its latest history entry still hold the old cell.
C19_Witness ==
    /\ call.op = "caller_write"
    /\ call.of = "step"
    /\ step_count >= 1
    /\ ret[3][1] = OTHER_SYMBOL
    /\ tape[1] # OTHER_SYMBOL
    /\ history[Len(history)].tape = tape

\* Every entry of the table moves R, L or S.
DirectionsValid(cfg) ==
    \A key \in DOMAIN cfg.transitions :
        cfg.transitions[key][3] \in {"R", "L", "S"}

\* C21: on an engine whose table moves only R, L or S and whose reject set
\* is non-empty, no reset, step, run or get_status call raises: each returns
\* its result, whatever the input string, the step limit and the position of
\* the head; acceptance, rejection, rejection for want of a transition and
\* rejection by the step limit all come as returned step results.
C21_NoCallRaises ==
    (/\ DirectionsValid(Config)
     /\ reject_states # {}
     /\ call.op \in {"reset", "step", "run", "get_status"})
    => (/\ raised = NoError
        /\ (call.op = "step" => ret[1] \in BOOLEAN)
        /\ (call.op = "run" =>
              (\A i \in DOMAIN ret :
                  (ret[i][5] \in {MSG_ACCEPT, MSG_REJECT, MSG_NO_TRANSITION,
                                  MSG_MAX_STEPS}) <=> ~ret[i][1])))

\* After a reset, the sixth step of the right-walking definition has read the
\* cell beyond the end of the buffer and returned a result.
C21_Witness ==
    /\ call.op = "step"
    /\ raised = NoError
    /\ defn = "loop-right"
    /\ loaded = <<<<>>>>
    /\ step_count = 6
    /\ Len(tape) = 11
    /\ ret[1]

\* C22: reset(s) discards the run state it finds: whatever calls came before,
\* it leaves tape, head_position, current_state, step_count and history as
\* reset(s) leaves them on an engine fresh from the constructor.
C22_ResetDiscardsRunState ==
    [][(call'.op = "reset" /\ Constructed)
       => LET fresh == reset(Config, init(Config), call'.input_string)
          IN /\ raised' = NoError
             /\ tape' = fresh.tape
             /\ head_position' = fresh.head_position
             /\ current_state' = fresh.current_state
             /\ step_count' = fresh.step_count
             /\ history' = fresh.history]_vars

\* reset was just called with the empty string: the tape is ten blanks and
\* history holds the one entry of the reset.
C22_Witness ==
    /\ call.op = "reset"
    /\ call.input_string = <<>>
    /\ Len(tape) = 10
    /\ step_count = 0
    /\ Len(history) = 1

\* C23: reset(s) raises nothing for a string with symbols outside the input
\* alphabet and the tape alphabet and puts each symbol of s on the tape as
\* given; a step() that reads such a symbol and finds no entry for it returns
\* a rejection (continue = false, the no-transition message) and raises
\* nothing.
C23_UnknownSymbolsTolerated ==
    /\ [](call.op = "reset" =>
            /\ raised = NoError
            /\ Len(tape) = Len(call.input_string) + 10
            /\ SubSeq(tape, 6, 5 + Len(call.input_string)) = call.input_string)
    /\ [][(/\ StepOnRunning
           /\ SymbolUnderHead \notin SetOf(Config.tape_alphabet)
           /\ <<current_state, SymbolUnderHead>> \notin DOMAIN Config.transitions)
          => (/\ raised' = NoError
              /\ ret'[1] = FALSE
              /\ ret'[2] = first_reject(reject_list)
              /\ ret'[5] = MSG_NO_TRANSITION)]_vars

\* After one transition the head reached the symbol outside the alphabets
\* that reset had put on the tape, and the step that read it rejected.
C23_Witness ==
    /\ call.op = "step"
    /\ raised = NoError
    /\ loaded # <<>>
    /\ Len(loaded[1]) = 2
    /\ loaded[1][2] = OTHER_SYMBOL
    /\ step_count = 1
    /\ head_position = 6
    /\ tape[head_position + 1] = OTHER_SYMBOL
    /\ ret[5] = MSG_NO_TRANSITION

\* C24: when the initial state is in the accept set or in the reject set, the
\* first step() after reset(s) returns continue = false with that state and
\* the accept or reject message and takes no transition: step_count stays 0,
\* tape and head position stay as reset left them, and history still holds
\* the one entry of the reset.
C24_HaltingInitialState ==
    [][(/\ call.op = "reset"
        /\ call'.op = "step"
        /\ Config.initial_state \in accept_states \cup reject_states)
       => (/\ raised' = NoError
           /\ ret'[1] = FALSE
           /\ ret'[2] = Config.initial_state
           /\ ret'[3] = tape
           /\ ret'[4] = head_position
           /\ (Config.initial_state \in accept_states \ reject_states
                 => ret'[5] = <<"CADENA ACEPTADA">>)
           /\ (Config.initial_state \in reject_states \ accept_states
                 => ret'[5] = <<"CADENA RECHAZADA">>)
           /\ current_state' = Config.initial_state
           /\ step_count' = 0
           /\ tape' = tape
           /\ head_position' = head_position
           /\ Len(history') = 1
           /\ history' = history)]_vars

\* The first step after a reset of the definition that starts in its reject
\* state has returned the rejection; the table has an entry for the state
\* and the symbol under the head, which was not applied.
C24_Witness ==
    /\ call.op = "step"
    /\ raised = NoError
    /\ loaded = <<<<"a">>>>
    /\ Config.initial_state \in reject_states
    /\ <<current_state, tape[head_position + 1]>> \in DOMAIN Config.transitions
    /\ ret[5] = MSG_REJECT
    /\ step_count = 0
    /\ Len(history) = 1

\* C25: accept and reject states are terminal for step() and get_status():
\* called with the current state in the accept set (in the reject set), each
\* leaves that very state in place, so an accepted machine is not rejected
\* or running afterwards and a rejected one is not accepted or running.
C25_HaltingStatesAreTerminal ==
    [][(/\ call'.op \in {"step", "get_status"}
        /\ Constructed
        /\ Halted)
       => (/\ raised' = NoError
           /\ current_state' = current_state
           /\ (current_state \in accept_states =>
                 get_status(Config, Self').ret.is_accepting)
           /\ (current_state \in reject_states =>
                 get_status(Config, Self').ret.is_rejecting)
           /\ ~get_status(Config, Self').ret.is_running)]_vars

\* get_status() was called on a machine that had accepted after at least one
\* transition and reports it as accepting.
C25_Witness ==
    /\ call.op = "get_status"
    /\ loaded # <<>>
    /\ step_count >= 1
    /\ current_state \in accept_states
    /\ ret.is_accepting
    /\ ~ret.is_running

\* C26: in every state of a constructed engine exactly one of the flags
\* is_accepting, is_rejecting and is_running of get_status() is true.
C26_ExactlyOneFlag ==
    Constructed =>
        LET status == get_status(Config, Self).ret
        IN Cardinality({flag \in {"is_accepting", "is_rejecting", "is_running"} :
                           status[flag]}) = 1

\* C27: for each of the five sample definitions and every string of length n
\* over its input alphabet, the empty string among them, reset raises nothing
\* and stepping until continue = false takes at most n + 1 calls of step():
\* the machine has then halted, and every call was a transition.
C27_SamplesHaltWithinLength ==
    (/\ call.op = "test_regex_with_strings"
     /\ call.regex_name \in SampleNames
     /\ call.test_strings # <<>>
     /\ validate_input_string(loaded[1], Config.alphabet))
    => (/\ raised = NoError
        /\ Halted
        /\ step_count <= Len(loaded[1]) + 1
        /\ Len(history) = step_count + 1
        /\ SubSeq(tape, 6, 5 + Len(loaded[1])) = loaded[1])

\* The machine of (a|b)*abb has read all of "aabb" and accepted on the blank
\* behind it, in 5 steps.
C27_Witness ==
    /\ call.op = "test_regex_with_strings"
    /\ call.regex_name = "(a|b)*abb"
    /\ loaded = <<<<"a", "a", "b", "b">>>>
    /\ step_count = 5
    /\ current_state \in accept_states

\* C28: for each of the five regex names, the sample machine accepts every
\* string of get_examples_for_regex(name)['accepted'] and rejects every string
\* of get_examples_for_regex(name)['rejected'] (reset with the string, then
\* step() until continue = false).
C28_ExamplesAgreeWithMachines ==
    (/\ call.op = "test_regex_with_strings"
     /\ call.regex_name \in SampleNames
     /\ call.test_strings = example_cases(call.regex_name))
    => (/\ ret.total = Len(get_examples_for_regex(call.regex_name).accepted)
                        + Len(get_examples_for_regex(call.regex_name).rejected)
        /\ \A i \in DOMAIN ret.details :
              ret.details[i].got = call.test_strings[i][2])

\* C29: between operations the head index is at most one cell outside the
\* tape (-1 <= head_position <= len(tape)), and on a machine that has not
\* halted the bounds adjustment step() makes before its read brings the head
\* onto the tape (0 <= head_position < len(tape)): a head index below 0
\* prepends exactly 5 blanks and adds 5 to head_position, a head index at or
\* beyond the end appends blanks until len(tape) = head_position + 1, and a
\* head index on the tape changes nothing.
C29_HeadWithinBounds ==
    Constructed =>
        LET adjusted == ensure_tape_bounds(Config, Self)
            blank == Config.blank_symbol
        IN /\ (-1 <= head_position /\ head_position <= Len(tape))
           /\ (~Halted => (/\ 0 <= adjusted.head_position
                           /\ adjusted.head_position < Len(adjusted.tape)))
           /\ (head_position < 0
                 => (/\ adjusted.tape = <<blank, blank, blank, blank, blank>> \o tape
                     /\ adjusted.head_position = head_position + 5))
           /\ (head_position >= Len(tape)
                 => (/\ Len(adjusted.tape) = head_position + 1
                     /\ adjusted.head_position = head_position
                     /\ SubSeq(adjusted.tape, 1, Len(tape)) = tape
                     /\ \A i \in Len(tape) + 1 .. Len(adjusted.tape) :
                           adjusted.tape[i] = blank))
           /\ ((0 <= head_position /\ head_position < Len(tape))
                 => (/\ adjusted.tape = tape
                     /\ adjusted.head_position = head_position))

\* After six step() calls the head is one cell left of the tape for the second
\* time: the first excursion made step() prepend five blanks.
C29_Witness ==
    /\ call.op = "step"
    /\ ~Halted
    /\ step_count = 6
    /\ head_position = -1
    /\ Len(tape) >= 6

\* C30: in the window, whatever the order and timing of Cargar, Ejecutar
\* Todo, Pausar, Resetear and Siguiente Paso, at most one worker thread is
\* inside step() at any moment: two step() calls on the engine never overlap.
C30_OneWorkerStepping ==
    Cardinality({t \in DOMAIN gui.threads : gui.threads[t].pc = "step"}) <= 1

\* C31: in the window, once Resetear or Cargar has returned, the engine stays
\* in its initial configuration (step_count 0, initial state) until Siguiente
\* Paso or Ejecutar Todo is pressed: while no automatic run is in force, a
\* step that takes the engine out of its initial configuration is not a step
\* of a worker thread.
C31_ResetStopsWorkers ==
    [][(/\ gui.tm # None
        /\ ~gui.is_running
        /\ ~gui.is_paused
        /\ step_count = 0
        /\ current_state = Config.initial_state
        /\ loaded # <<>>)
       => (\/ (step_count' = 0 /\ current_state' = Config.initial_state)
           \/ gui'.threads = gui.threads)]_vars

\* C32: every string the window hands to the engine's reset, through Cargar
\* and through Resetear, holds only symbols of the input alphabet of the
\* definition the engine was constructed with.
C32_GuiValidatesInput ==
    (gui.tm # None /\ loaded # <<>>)
        => \A i \in DOMAIN loaded[1] : loaded[1][i] \in SetOf(Config.alphabet)

\* C33: a step() that raises the invalid-direction error leaves the run state
\* as it was before the call: tape, head_position, current_state, step_count
\* and history are unchanged.
C33_FailedStepChangesNothing ==
    [][(call'.op = "step" /\ raised' = "ValueError")
       => UNCHANGED <<tape, head_position, current_state, step_count, history>>]_vars

\* C34: a step() on a machine that has not halted changes at most one cell
\* that existed before the call, the cell under the head; every other cell
\* keeps its symbol, 5 places further when the tape was extended on the left.
\* A step() that finds no entry for the state and the symbol read changes no
\* existing cell and leaves the head on the cell it read.
C34_StepWritesOneCell ==
    [][StepOnRunning
       => LET shift == IF head_position < 0 THEN 5 ELSE 0
              under == head_position + shift + 1
              read == IF head_position >= 0 /\ head_position < Len(tape)
                      THEN tape[head_position + 1]
                      ELSE Config.blank_symbol
          IN /\ Len(tape') >= Len(tape) + shift
             /\ (\A i \in DOMAIN tape :
                    (i + shift # under) => tape'[i + shift] = tape[i])
             /\ ((<<current_state, read>> \notin DOMAIN Config.transitions)
                   => (/\ \A i \in DOMAIN tape : tape'[i + shift] = tape[i]
                       /\ tape'[under] = read
                       /\ head_position' = under - 1))]_vars

\* The second step() of an engine that was never reset prepended five blanks,
\* kept the cell written by the first step at its shifted place and rewrote
\* only the cell under the head.
C34_Witness ==
    /\ call.op = "step"
    /\ raised = NoError
    /\ loaded = <<>>
    /\ step_count = 2
    /\ head_position = 3
    /\ tape = <<"_", "_", "_", "_", "a", "a">>

\* A definition is well formed and total: the initial state is a state, the
\* accept and reject sets are disjoint sets of states, the blank symbol is a
\* tape symbol, and the table has an entry for exactly the pairs of a
\* non-halting state and a tape symbol, each with its next state among the
\* states, its written symbol among the tape symbols and a direction R, L or S.
WellFormedAndTotal(cfg) ==
    LET halting == SetOf(cfg.accept_states) \cup SetOf(cfg.reject_states)
    IN /\ cfg.initial_state \in SetOf(cfg.states)
       /\ halting \subseteq SetOf(cfg.states)
       /\ SetOf(cfg.accept_states) \cap SetOf(cfg.reject_states) = {}
       /\ cfg.blank_symbol = "_"
       /\ cfg.blank_symbol \in SetOf(cfg.tape_alphabet)
       /\ DOMAIN cfg.transitions =
             (SetOf(cfg.states) \ halting) \X SetOf(cfg.tape_alphabet)
       /\ \A key \in DOMAIN cfg.transitions :
             /\ cfg.transitions[key][1] \in SetOf(cfg.states)
             /\ cfg.transitions[key][2] \in SetOf(cfg.tape_alphabet)
             /\ cfg.transitions[key][3] \in {"R", "L", "S"}

\* C35: each of the five sample definitions is well formed and total, and no
\* run of a sample machine on a string over its input alphabet ends through
\* the branch "no transition defined": every step() of the run counted a step,
\* so the history holds exactly one entry per step count, the last of them
\* the halting configuration.
C35_SamplesWellFormedAndTotal ==
    /\ \A n \in SampleNames : WellFormedAndTotal(get_machine_config(n))
    /\ (/\ call.op = "test_regex_with_strings"
        /\ call.regex_name \in SampleNames
        /\ call.test_strings # <<>>
        /\ validate_input_string(loaded[1], Config.alphabet))
       => (/\ \A i \in DOMAIN history : history[i].step = i - 1
           /\ history[Len(history)].step = step_count
           /\ history[Len(history)].state = current_state)

\* The machine of (ab)* was run on "a": it read the blank in q1 and went to
\* the reject state through the entry for ('q1', '_').
C35_Witness ==
    /\ call.op = "test_regex_with_strings"
    /\ call.regex_name = "(ab)*"
    /\ loaded = <<<<"a">>>>
    /\ step_count = 2
    /\ current_state \in reject_states
    /\ Len(history) = 3

\* C36: whenever the result label of the window shows a rejection (after
\* Siguiente Paso, after an automatic run that halted, or after the automatic
\* run stopped at its step limit), the current state of the engine is a reject
\* state and get_status() reports is_rejecting.
C36_RejectionLabelMeansRejected ==
    gui.result_label \in {LABEL_REJECTED, LABEL_MAX_STEPS}
        => (/\ current_state \in reject_states
            /\ get_status(Config, Self).ret.is_rejecting)

\* C37: the 'symbol' of every history entry is the symbol at the entry's head
\* index in the entry's tape, and the blank symbol when that index lies
\* outside the tape of the entry (below 0, or at or beyond its length).
C37_HistorySymbolUnderHead ==
    Constructed =>
        \A i \in DOMAIN history :
            IF 0 <= history[i].head /\ history[i].head < Len(history[i].tape)
            THEN history[i].symbol = history[i].tape[history[i].head + 1]
            ELSE history[i].symbol = Config.blank_symbol
====
